---- MODULE Spec2Model ----
(***************************************************************************)
(* A model of deep_time_series/data.py: the ChunkSpec family,              *)
(* ChunkExtractor, FeatureTransformers and TimeSeriesDataset.              *)
(*                                                                         *)
(* Tables (pandas DataFrames) are records                                  *)
(*   [kind |-> "DataFrame", columns |-> sequence of names,                 *)
(*    index |-> sequence of row labels,                                    *)
(*    data |-> function from each column name to its sequence of values].  *)
(* An operation that can raise returns a record whose field kind is        *)
(* "error".                                                                *)
(***************************************************************************)
EXTENDS Integers, Sequences, FiniteSets, TLC

VARIABLES
    pc,                       \* position of the caller / of _preprocess
    df,                       \* the table handed in (TimeSeriesDataset: self.df)
    encoding_length,          \* the encoding_length argument
    decoding_length,          \* the decoding_length argument
    chunk_specs,              \* the ChunkSpec objects handed in
    fit_feature_transformers, \* the flag handed in
    transformer_dict,         \* FeatureTransformers.transformer_dict: name -> transformer object
    fitted,                   \* state of every transformer object
    range_chunk_specs,        \* RangeChunkSpec list (dataset: self.chunk_specs)
    scaled_df,                \* self.scaled_df
    splitted_dfs,             \* the per-series tables of _preprocess
    chunk_extractors,         \* self.chunk_extractors
    lengths,                  \* self.lengths
    calls,                    \* FeatureTransformers methods invoked so far, with their argument
    op,                       \* the last operation called
    arg,                      \* its argument
    result                    \* what it returned or raised

vars == <<pc, df, encoding_length, decoding_length, chunk_specs,
          fit_feature_transformers, transformer_dict, fitted,
          range_chunk_specs, scaled_df, splitted_dfs, chunk_extractors,
          lengths, calls, op, arg, result>>

----------------------------------------------------------------------------
(* Bounds of the model.                                                    *)

MaxRows == 4        \* rows of a dataset table
MaxFtRows == 2      \* rows of a table handed to FeatureTransformers directly
MaxSeriesLen == 3   \* rows of the table handed to one ChunkExtractor
MaxEnd == 2         \* largest bound of a directly built RangeChunkSpec
MaxLength == 1      \* largest encoding_length / decoding_length
MaxShift == 2       \* largest shift of a ChunkSpec
MaxCalls == 3       \* FeatureTransformers methods a caller invokes in a row

----------------------------------------------------------------------------
(* Python and numpy primitives.                                            *)

Range(s) == {s[i] : i \in DOMAIN s}

MinOf(S) == CHOOSE m \in S : \A x \in S : m <= x

MaxOf(S) == CHOOSE m \in S : \A x \in S : x <= m

RECURSIVE Sum(_)
Sum(s) == IF s = <<>> THEN 0 ELSE s[1] + Sum(Tail(s))

None == [kind |-> "None"]

Raise(exc) == [kind |-> "error", exc |-> exc]

IsError(v) == v.kind = "error"

\* One bound of a slice, clamped into 0..n the way Python does (step 1).
SliceBound(k, n) ==
    IF k < 0 THEN (IF k + n < 0 THEN 0 ELSE k + n)
    ELSE (IF k > n THEN n ELSE k)

\* seq[start:stop]
PySlice(seq, start, stop) ==
    SubSeq(seq, SliceBound(start, Len(seq)) + 1, SliceBound(stop, Len(seq)))

\* seq[i] with Python's negative indices; i must be in range.
PyInRange(seq, i) == (-Len(seq)) <= i /\ i < Len(seq)

PyIndex(seq, i) == IF i < 0 THEN seq[Len(seq) + i + 1] ELSE seq[i + 1]

\* np.cumsum([0] + lengths)
Cumsum(ls) == [j \in 1..(Len(ls) + 1) |-> Sum(SubSeq(ls, 1, j - 1))]

\* np.argmax of a boolean array: the 0-based place of the first True, 0 when
\* there is none.
ArgmaxBool(bs) ==
    IF \E j \in DOMAIN bs : bs[j]
    THEN MinOf({j \in DOMAIN bs : bs[j]}) - 1
    ELSE 0

\* ndarray.astype for the dtypes of the model, on integer values.
AsType(v, dtype) ==
    CASE dtype = "int64" -> v
      [] dtype = "uint8" -> v % 256
      [] dtype = "bool" -> (IF v = 0 THEN 0 ELSE 1)

\* values.reshape(-1, 1) and return_value.reshape(-1)
ReshapeColumn(values) == [i \in DOMAIN values |-> <<values[i]>>]

ReshapeFlat(array) == [i \in DOMAIN array |-> array[i][1]]

\* A table with the given columns, row labels and values.
Table(columns, index, data) ==
    [kind |-> "DataFrame", columns |-> columns, index |-> index, data |-> data]

NRows(table) == Len(table.index)

\* A pandas Series df[name] and a bare ndarray, as values of a dict.
SeriesOf(table, name) ==
    [kind |-> "Series", index |-> table.index, values |-> table.data[name]]

NdArray(values) == [kind |-> "ndarray", values |-> values]

\* The value a Series holds at a row label.
AtLabel(series, label) ==
    series.values[CHOOSE p \in DOMAIN series.index : series.index[p] = label]

\* pd.DataFrame(data=data, index=index) for an ordered dict data, given as
\* [keys, val]: an ndarray is taken by position, a Series is aligned on its
\* labels.
DataFrame(data, index) ==
    Table(data.keys, index,
          [name \in Range(data.keys) |->
              IF data.val[name].kind = "Series"
              THEN [p \in DOMAIN index |-> AtLabel(data.val[name], index[p])]
              ELSE data.val[name].values])

\* data[name] = value on an ordered dict: a new key goes last, an existing key
\* keeps its place.
DictSet(data, name, value) ==
    [kind |-> "dict",
     keys |-> IF name \in Range(data.keys) THEN data.keys ELSE Append(data.keys, name),
     val |-> [k \in Range(data.keys) \cup {name} |->
                IF k = name THEN value ELSE data.val[k]]]

----------------------------------------------------------------------------
(* RangeChunkSpec and the ChunkSpec family.                                *)

RangeChunkSpec(tag, names, range_, dtype) ==
    [tag |-> tag, names |-> names, range_ |-> range_, dtype |-> dtype]

ChunkSpec(tag, names, dtype, shift) ==
    [tag |-> tag, names |-> names, shift |-> shift, dtype |-> dtype]

EncodingChunkSpec(tag, names, dtype, shift) ==
    ChunkSpec("encoding." \o tag, names, dtype, shift)

DecodingChunkSpec(tag, names, dtype, shift) ==
    ChunkSpec("decoding." \o tag, names, dtype, shift)

LabelChunkSpec(tag, names, dtype, shift) ==
    ChunkSpec("label." \o tag, names, dtype, shift)

\* A mutant: the shift added instead of subtracted.
to_range_chunk_spec_shift_added(self, E, D) ==
    RangeChunkSpec(self.tag, self.names, <<E + self.shift, E + D + self.shift>>,
                   self.dtype)

to_range_chunk_spec(self, E, D) ==
    RangeChunkSpec(self.tag, self.names, <<E - self.shift, E + D - self.shift>>,
                   self.dtype)

----------------------------------------------------------------------------
(* ChunkExtractor.                                                         *)

\* A two-dimensional ndarray: its rows and its number of columns.
Array2D(rows, ncols) == [rows |-> rows, ncols |-> ncols]

Shape(array) == <<Len(array.rows), array.ncols>>

\* array[start:stop] on the first axis.
SliceRows(array, start, stop) ==
    Array2D(PySlice(array.rows, start, stop), array.ncols)

Tags(specs) == [k \in DOMAIN specs |-> specs[k].tag]

\* df[spec.names].astype(spec.dtype).values
SpecArray(table, spec) ==
    Array2D([p \in 1..NRows(table) |->
                [c \in DOMAIN spec.names |->
                    AsType(table.data[spec.names[c]][p], spec.dtype)]],
            Len(spec.names))

\* ChunkExtractor._preprocess: self.data, one array per tag.
ExtractorData(table, specs) ==
    [tag \in Range(Tags(specs)) |->
        SpecArray(table, specs[CHOOSE k \in DOMAIN specs : specs[k].tag = tag])]

\* A mutant: the constructor without its tag check.
ChunkExtractorInit_unchecked(table, specs) ==
    IF specs = <<>>
    THEN [kind |-> "error", exc |-> "ValueError", assigned |-> {"range_chunk_specs"}]
    ELSE IF \E k \in DOMAIN specs : ~(Range(specs[k].names) \subseteq Range(table.columns))
    THEN [kind |-> "error", exc |-> "KeyError",
          assigned |-> {"range_chunk_specs", "chunk_length", "data"}]
    ELSE [kind |-> "ChunkExtractor",
          range_chunk_specs |-> specs,
          chunk_length |-> MaxOf({specs[k].range_[2] : k \in DOMAIN specs}),
          data |-> ExtractorData(table, specs)]

\* ChunkExtractor.__init__: the object built, or the exception raised together
\* with the attributes of self assigned before it.
ChunkExtractorInit(table, specs) ==
    IF Len(Tags(specs)) # Cardinality(Range(Tags(specs)))
    THEN [kind |-> "error", exc |-> "AssertionError", assigned |-> {}]
    ELSE IF specs = <<>>
    THEN [kind |-> "error", exc |-> "ValueError", assigned |-> {"range_chunk_specs"}]
    ELSE IF \E k \in DOMAIN specs : ~(Range(specs[k].names) \subseteq Range(table.columns))
    THEN [kind |-> "error", exc |-> "KeyError",
          assigned |-> {"range_chunk_specs", "chunk_length", "data"}]
    ELSE [kind |-> "ChunkExtractor",
          range_chunk_specs |-> specs,
          chunk_length |-> MaxOf({specs[k].range_[2] : k \in DOMAIN specs}),
          data |-> ExtractorData(table, specs)]

\* A mutant: range_ applied to the whole series instead of to the window.
extract_absolute(self, start_time_index) ==
    [kind |-> "dict",
     keys |-> Tags(self.range_chunk_specs),
     val |-> [tag \in Range(Tags(self.range_chunk_specs)) |->
                LET spec == self.range_chunk_specs[
                                CHOOSE k \in DOMAIN self.range_chunk_specs :
                                    self.range_chunk_specs[k].tag = tag]
                IN  SliceRows(self.data[tag], spec.range_[1], spec.range_[2])]]

\* ChunkExtractor.extract
extract(self, start_time_index) ==
    [kind |-> "dict",
     keys |-> Tags(self.range_chunk_specs),
     val |-> [tag \in Range(Tags(self.range_chunk_specs)) |->
                LET spec == self.range_chunk_specs[
                                CHOOSE k \in DOMAIN self.range_chunk_specs :
                                    self.range_chunk_specs[k].tag = tag]
                    array == SliceRows(self.data[tag], start_time_index,
                                       start_time_index + self.chunk_length)
                IN  SliceRows(array, spec.range_[1], spec.range_[2])]]

----------------------------------------------------------------------------
(* The transformer objects a FeatureTransformers registry holds.  They are *)
(* collaborators from outside the repository: a scaler that learns the     *)
(* smallest value of the column it is fitted on and subtracts it, so that  *)
(* its inverse_transform is the exact inverse of its transform.            *)

Unfitted == [fitted |-> FALSE, lo |-> 0]

ScalerFit(X) == [fitted |-> TRUE, lo |-> MinOf({X[i][1] : i \in DOMAIN X})]

ScalerTransform(state, X) ==
    IF state.fitted
    THEN [kind |-> "ndarray", values |-> [i \in DOMAIN X |-> <<X[i][1] - state.lo>>]]
    ELSE Raise("NotFittedError")

ScalerInverseTransform(state, X) ==
    IF state.fitted
    THEN [kind |-> "ndarray", values |-> [i \in DOMAIN X |-> <<X[i][1] + state.lo>>]]
    ELSE Raise("NotFittedError")

\* transformer.<method>(X): what the call returns and the state of the
\* transformer after it.  fit returns the transformer itself.
ScalerCall(method, state, X) ==
    CASE method = "fit" ->
           [state |-> ScalerFit(X), value |-> [kind |-> "object"]]
      [] method = "transform" ->
           [state |-> state, value |-> ScalerTransform(state, X)]
      [] method = "inverse_transform" ->
           [state |-> state, value |-> ScalerInverseTransform(state, X)]
      [] method = "fit_transform" ->
           [state |-> ScalerFit(X), value |-> ScalerTransform(ScalerFit(X), X)]

----------------------------------------------------------------------------
(* FeatureTransformers.  tdict is self.transformer_dict, state the state   *)
(* of the transformer objects.                                             *)

\* FeatureTransformers._apply_to_single_feature, func being the method of
\* the transformer in the given state: what it returns, and the state of the
\* transformer after it.
apply_to_single_feature(values, method, state) ==
    LET called == ScalerCall(method, state, ReshapeColumn(values))
        return_value == called.value
    IN  [state |-> called.state,
         value |-> IF return_value.kind = "ndarray"
                   THEN NdArray(ReshapeFlat(return_value.values))
                   ELSE return_value]

\* A mutant: time_index and time_series_id are added only when they are not
\* in the dict yet.
append_index_and_id_keep(data, table) ==
    LET with_index == IF "time_index" \in Range(table.columns)
                         /\ "time_index" \notin Range(data.keys)
                      THEN DictSet(data, "time_index", SeriesOf(table, "time_index"))
                      ELSE data
    IN  IF "time_series_id" \in Range(table.columns)
           /\ "time_series_id" \notin Range(data.keys)
        THEN DictSet(with_index, "time_series_id", SeriesOf(table, "time_series_id"))
        ELSE with_index

\* FeatureTransformers._append_index_and_id
append_index_and_id(data, table) ==
    LET with_index == IF "time_index" \in Range(table.columns)
                      THEN DictSet(data, "time_index", SeriesOf(table, "time_index"))
                      ELSE data
    IN  IF "time_series_id" \in Range(table.columns)
        THEN DictSet(with_index, "time_series_id", SeriesOf(table, "time_series_id"))
        ELSE with_index

\* FeatureTransformers._get_valid_names
get_valid_names(tdict, names) ==
    LET valid_name_set == (DOMAIN tdict) \cap Range(names)
    IN  SelectSeq(names, LAMBDA name : name \in valid_name_set)

\* The loop "for name in self._get_valid_names(df.columns)" of fit, transform,
\* fit_transform and inverse_transform over the names left: the state of the
\* transformer objects and the dict data after it, or the exception a
\* transformer raised.  fit keeps nothing of what its calls return.
RECURSIVE MethodLoop(_, _, _, _, _, _)
MethodLoop(method, tdict, state, table, names, data) ==
    IF names = <<>> THEN [kind |-> "looped", state |-> state, data |-> data]
    ELSE LET name == Head(names)
             applied == apply_to_single_feature(table.data[name], method,
                                                state[tdict[name]])
         IN  IF IsError(applied.value) THEN applied.value
             ELSE MethodLoop(method, tdict,
                             [state EXCEPT ![tdict[name]] = applied.state],
                             table, Tail(names),
                             IF method = "fit" THEN data
                             ELSE DictSet(data, name, applied.value))

\* The body shared by the four methods: the state of the transformer objects
\* after it and the table assembled, or the exception raised.
ApplyMethod(method, tdict, state, table) ==
    LET looped == MethodLoop(method, tdict, state, table,
                             get_valid_names(tdict, table.columns),
                             [kind |-> "dict", keys |-> <<>>, val |-> <<>>])
    IN  IF IsError(looped) THEN looped
        ELSE [kind |-> "returned",
              state |-> looped.state,
              table |-> DataFrame(append_index_and_id(looped.data, table),
                                  table.index)]

\* FeatureTransformers.fit: the state of the transformer objects after it.
fit(tdict, state, table) == ApplyMethod("fit", tdict, state, table).state

\* FeatureTransformers.transform: the table returned, or the exception.
transform(tdict, state, table) ==
    LET returned == ApplyMethod("transform", tdict, state, table)
    IN  IF IsError(returned) THEN returned ELSE returned.table

\* A mutant: inverse_transform applies the transformers' transform.
inverse_transform_forward(tdict, state, table) ==
    LET returned == ApplyMethod("transform", tdict, state, table)
    IN  IF IsError(returned) THEN returned ELSE returned.table

\* FeatureTransformers.inverse_transform: the table returned, or the
\* exception.
inverse_transform(tdict, state, table) ==
    LET returned == ApplyMethod("inverse_transform", tdict, state, table)
    IN  IF IsError(returned) THEN returned ELSE returned.table

\* FeatureTransformers.fit_transform: the table returned and the state of the
\* transformer objects after it.
fit_transform(tdict, state, table) ==
    ApplyMethod("fit_transform", tdict, state, table)

----------------------------------------------------------------------------
(* TimeSeriesDataset.                                                      *)

\* The orders of the rows in S (places in the table) that sort_values may
\* leave: time_index ascending, rows of equal time_index in any order, since
\* the default sort kind is not a stable one.
RECURSIVE SortedOrders(_, _)
SortedOrders(time, S) ==
    IF S = {} THEN {<<>>}
    ELSE LET least == MinOf({time[p] : p \in S})
         IN  UNION {{<<p>> \o rest : rest \in SortedOrders(time, S \ {p})} :
                    p \in {q \in S : time[q] = least}}

\* The rows of a table at the given places, in that order, with their labels.
TakeRows(table, places) ==
    Table(table.columns,
          [j \in DOMAIN places |-> table.index[places[j]]],
          [name \in Range(table.columns) |->
              [j \in DOMAIN places |-> table.data[name][places[j]]]])

\* The tables df.sort_values(by='time_index') may leave.
SortValues(table) ==
    {TakeRows(table, order) :
        order \in SortedOrders(table.data["time_index"], 1..NRows(table))}

RECURSIVE Ascending(_)
Ascending(S) ==
    IF S = {} THEN <<>> ELSE <<MinOf(S)>> \o Ascending(S \ {MinOf(S)})

\* The distinct values of a sequence in the order of their first appearance.
RECURSIVE FirstAppearance(_)
FirstAppearance(values) ==
    IF values = <<>> THEN <<>>
    ELSE <<Head(values)>>
         \o FirstAppearance(SelectSeq(Tail(values), LAMBDA v : v # Head(values)))

Places(table) == [p \in 1..NRows(table) |-> p]

\* The sub-table of the rows whose column by holds key.
Group(table, by, key) ==
    TakeRows(table, SelectSeq(Places(table), LAMBDA p : table.data[by][p] = key))

\* A mutant: the groups in the order their keys first appear.
GroupBy_unsorted(table, by) ==
    LET keys == FirstAppearance(table.data[by])
    IN  [k \in DOMAIN keys |-> Group(table, by, keys[k])]

\* [df for _, df in table.groupby(by)]: one sub-table per key, the keys in
\* ascending order (groupby sorts its keys), the rows of each in table order.
GroupBy(table, by) ==
    LET keys == Ascending(Range(table.data[by]))
    IN  [k \in DOMAIN keys |-> Group(table, by, keys[k])]

\* A mutant: fit is invoked whatever the flag says.
PreprocessFit_always(flag, tdict, state, table) == fit(tdict, state, table)

\* _preprocess, "if self.fit_feature_transformers: ...fit(self.df)": the state
\* of the transformer objects after the statement.
PreprocessFit(flag, tdict, state, table) ==
    IF flag THEN fit(tdict, state, table) ELSE state

\* A mutant: the last window of every series counted too.
PreprocessLengths_inclusive(tables, extractors) ==
    [k \in DOMAIN tables |-> NRows(tables[k]) - extractors[1].chunk_length + 1]

\* _preprocess, self.lengths.
PreprocessLengths(tables, extractors) ==
    [k \in DOMAIN tables |-> NRows(tables[k]) - extractors[1].chunk_length]

\* TimeSeriesDataset.__len__
len(ls) == Sum(ls)

\* A mutant: the first cumulative sum that is >= i taken, not the first > i.
getitem_locals_geq(ls, i) ==
    LET cumsum == Cumsum(ls)
        df_index == ArgmaxBool([j \in DOMAIN cumsum |-> cumsum[j] - i >= 0]) - 1
    IN  [kind |-> "__getitem__", i |-> i, cumsum |-> cumsum, df_index |-> df_index]

\* The locals cumsum and df_index of __getitem__(i).
getitem_locals(ls, i) ==
    LET cumsum == Cumsum(ls)
        df_index == ArgmaxBool([j \in DOMAIN cumsum |-> cumsum[j] - i > 0]) - 1
    IN  [kind |-> "__getitem__", i |-> i, cumsum |-> cumsum, df_index |-> df_index]

\* The local start_time_index of __getitem__(i).
getitem_start(locals) == locals.i - PyIndex(locals.cumsum, locals.df_index)

\* TimeSeriesDataset.__getitem__
getitem(extractors, ls, i) ==
    LET locals == getitem_locals(ls, i)
    IN  IF ~PyInRange(extractors, locals.df_index) THEN Raise("IndexError")
        ELSE extract(PyIndex(extractors, locals.df_index), getitem_start(locals))

\* The body of the loop of convert_item_to_df for one tag: the table for it.
ConvertChunk(tdict, state, names, values) ==
    LET zipped == IF Len(names) < values.ncols THEN Len(names) ELSE values.ncols
        columns == SubSeq(names, 1, zipped)
        table == Table(columns, [p \in DOMAIN values.rows |-> p - 1],
                       [name \in Range(columns) |->
                           LET c == MaxOf({j \in 1..zipped : names[j] = name})
                           IN  [p \in DOMAIN values.rows |-> values.rows[p][c]]])
    IN  inverse_transform(tdict, state, table)

\* TimeSeriesDataset.convert_item_to_df: it reads the attribute chunk_specs of
\* the first extractor.
convert_item_to_df(extractors, tdict, state, item) ==
    IF extractors = <<>> THEN Raise("IndexError")
    ELSE IF "chunk_specs" \notin DOMAIN extractors[1] THEN Raise("AttributeError")
    ELSE LET specs == extractors[1].chunk_specs
             tag_to_names_dict ==
                 [tag \in Range(Tags(specs)) |->
                     specs[MaxOf({k \in DOMAIN specs : specs[k].tag = tag})].names]
             output == [tag \in Range(item.keys) |->
                          IF tag \in DOMAIN tag_to_names_dict
                          THEN ConvertChunk(tdict, state, tag_to_names_dict[tag],
                                            item.val[tag])
                          ELSE Raise("KeyError")]
         IN  IF \E tag \in Range(item.keys) : IsError(output[tag])
             THEN output[CHOOSE tag \in Range(item.keys) : IsError(output[tag])]
             ELSE [kind |-> "dict", keys |-> item.keys, val |-> output]

----------------------------------------------------------------------------
(* Values of the variables an operation under study does not use.          *)

IntArg(v) == [kind |-> "int", value |-> v]

NoDataset ==
    /\ fit_feature_transformers = FALSE
    /\ scaled_df = None
    /\ splitted_dfs = <<>>
    /\ lengths = <<>>
    /\ calls = <<>>

NoTransformers ==
    /\ transformer_dict = <<>>
    /\ fitted = <<>>

----------------------------------------------------------------------------
(* SpecChunk: a caller builds one chunk spec of any role and converts it   *)
(* with any lengths, any number of times.                                  *)

Roles == {"encoding", "decoding", "label"}

UserTags == {"a", "b"}

NameLists == {<<"x">>, <<"y", "x">>}

Dtypes == {"int64", "uint8"}

Lengths == 0..MaxLength

DecodingLengths == 1..MaxLength

Shifts == (-1)..MaxShift

\* The constructor of the role's class.
NewChunkSpec(a) ==
    CASE a.role = "encoding" -> EncodingChunkSpec(a.tag, a.names, a.dtype, a.shift)
      [] a.role = "decoding" -> DecodingChunkSpec(a.tag, a.names, a.dtype, a.shift)
      [] a.role = "label" -> LabelChunkSpec(a.tag, a.names, a.dtype, a.shift)

InitChunk ==
    /\ pc = "ready"
    /\ arg \in [kind : {"ChunkSpec"}, role : Roles, tag : UserTags,
                names : NameLists, dtype : Dtypes, shift : Shifts]
    /\ chunk_specs = <<NewChunkSpec(arg)>>
    /\ encoding_length = 0
    /\ decoding_length = 0
    /\ op = "__init__"
    /\ result = None
    /\ df = None
    /\ range_chunk_specs = <<>>
    /\ chunk_extractors = <<>>
    /\ NoTransformers
    /\ NoDataset

ToRangeChunkSpec ==
    /\ pc = "ready"
    /\ \E E \in Lengths, D \in Lengths :
          /\ encoding_length' = E
          /\ decoding_length' = D
          /\ result' = to_range_chunk_spec(chunk_specs[1], E, D)
    /\ op' = "to_range_chunk_spec"
    /\ UNCHANGED <<pc, df, chunk_specs, arg, fit_feature_transformers,
                   transformer_dict, fitted, range_chunk_specs, scaled_df,
                   splitted_dfs, chunk_extractors, lengths, calls>>

NextChunk == ToRangeChunkSpec

SpecChunk == InitChunk /\ [][NextChunk]_vars

----------------------------------------------------------------------------
(* SpecExtractor: a caller builds a ChunkExtractor over one series from    *)
(* range-chunk specs of its own and extracts at any start index.           *)

\* A series of n rows: x counts up from 0, y counts down from -1.
SeriesTable(n) ==
    Table(<<"x", "y">>, [p \in 1..n |-> p - 1],
          [name \in {"x", "y"} |->
              [p \in 1..n |-> IF name = "x" THEN p - 1 ELSE 0 - p]])

ExTags == {EncodingChunkSpec("a", <<"x">>, "int64", 0).tag,
           LabelChunkSpec("a", <<"x">>, "int64", 0).tag}

ExFeatures == {[names |-> <<"x">>, dtype |-> "int64"],
               [names |-> <<"y", "x">>, dtype |-> "uint8"]}

ExBounds == (-1)..MaxEnd

ExSpecs ==
    {RangeChunkSpec(tag, f.names, <<r0, r1>>, f.dtype) :
        tag \in ExTags, f \in ExFeatures, r0 \in ExBounds, r1 \in ExBounds}

ExSpecLists ==
    {<<>>} \cup {<<a>> : a \in ExSpecs} \cup {<<a, b>> : a \in ExSpecs, b \in ExSpecs}

InitExtractor ==
    /\ pc = "new"
    /\ df \in {SeriesTable(n) : n \in 0..MaxSeriesLen}
    /\ range_chunk_specs \in ExSpecLists
    /\ chunk_extractors = <<>>
    /\ op = "none"
    /\ arg = None
    /\ result = None
    /\ chunk_specs = <<>>
    /\ encoding_length = 0
    /\ decoding_length = 0
    /\ NoTransformers
    /\ NoDataset

NewChunkExtractor ==
    /\ pc = "new"
    /\ LET built == ChunkExtractorInit(df, range_chunk_specs)
       IN  /\ result' = built
           /\ chunk_extractors' = IF IsError(built) THEN <<>> ELSE <<built>>
           /\ pc' = IF IsError(built) THEN "raised" ELSE "constructed"
    /\ op' = "ChunkExtractor"
    /\ UNCHANGED <<df, encoding_length, decoding_length, chunk_specs, arg,
                   fit_feature_transformers, transformer_dict, fitted,
                   range_chunk_specs, scaled_df, splitted_dfs, lengths, calls>>

Extract ==
    /\ pc = "constructed"
    /\ \E start \in (-1)..(NRows(df) + 1) :
          /\ arg' = IntArg(start)
          /\ result' = extract(chunk_extractors[1], start)
    /\ op' = "extract"
    /\ UNCHANGED <<pc, df, encoding_length, decoding_length, chunk_specs,
                   fit_feature_transformers, transformer_dict, fitted,
                   range_chunk_specs, scaled_df, splitted_dfs,
                   chunk_extractors, lengths, calls>>

NextExtractor == NewChunkExtractor \/ Extract

SpecExtractor == InitExtractor /\ [][NextExtractor]_vars

----------------------------------------------------------------------------
(* Properties of to_range_chunk_spec, under SpecChunk.                     *)

RolePrefix(role) ==
    CASE role = "encoding" -> "encoding."
      [] role = "decoding" -> "decoding."
      [] role = "label" -> "label."

\* C5: to_range_chunk_spec(E, D) of a chunk spec of any role yields a
\* RangeChunkSpec with range_ = (E - shift, E + D - shift) and the tag, names
\* and dtype of the source spec; the source spec is as it was built; and the
\* result for another role differs in the tag prefix alone.
C5_ToRangeChunkSpec ==
    op = "to_range_chunk_spec" =>
        /\ result.range_ = <<encoding_length - arg.shift,
                             encoding_length + decoding_length - arg.shift>>
        /\ result.tag = RolePrefix(arg.role) \o arg.tag
        /\ result.names = arg.names
        /\ result.dtype = arg.dtype
        /\ DOMAIN result = {"tag", "names", "range_", "dtype"}
        /\ chunk_specs = <<ChunkSpec(RolePrefix(arg.role) \o arg.tag, arg.names,
                                     arg.dtype, arg.shift)>>
        /\ \A role \in Roles :
              to_range_chunk_spec(NewChunkSpec([arg EXCEPT !.role = role]),
                                  encoding_length, decoding_length)
                = [result EXCEPT !.tag = RolePrefix(role) \o arg.tag]

C5_Witness ==
    /\ op = "to_range_chunk_spec"
    /\ arg.role = "label"
    /\ arg.shift = 2
    /\ encoding_length = 1
    /\ decoding_length = 1
    /\ result.range_ = <<-1, 0>>
    /\ result.tag = "label.b"

----------------------------------------------------------------------------
(* Properties of ChunkExtractor, under SpecExtractor.                      *)

\* An extraction has just been made at a start index inside the series.
ExtractedInBounds ==
    /\ op = "extract"
    /\ 0 <= arg.value
    /\ arg.value + chunk_extractors[1].chunk_length <= NRows(df)

\* The rows start + range_[0] up to start + range_[1] of the precomputed array
\* of the k-th spec.
ExpectedRows(k) ==
    LET spec == range_chunk_specs[k]
    IN  [j \in 1..(spec.range_[2] - spec.range_[1]) |->
            chunk_extractors[1].data[spec.tag].rows[arg.value + spec.range_[1] + j]]

ChunkLengthIsMaxEnd ==
    \A k \in DOMAIN range_chunk_specs :
        /\ range_chunk_specs[k].range_[2] <= chunk_extractors[1].chunk_length
        /\ \E j \in DOMAIN range_chunk_specs :
              range_chunk_specs[j].range_[2] = chunk_extractors[1].chunk_length

\* The statement of C4 as claimed, for every integer range_.
C4_AnyRange ==
    ExtractedInBounds =>
        /\ ChunkLengthIsMaxEnd
        /\ Range(result.keys) = Range(Tags(range_chunk_specs))
        /\ \A k \in DOMAIN range_chunk_specs :
              LET spec == range_chunk_specs[k]
              IN  /\ Shape(result.val[spec.tag])
                       = <<spec.range_[2] - spec.range_[1], Len(spec.names)>>
                  /\ result.val[spec.tag].rows = ExpectedRows(k)

\* C4 (amended): chunk_length is the largest range_[1]; an in-bounds extract
\* returns one entry per tag, and for every spec with
\* 0 <= range_[0] <= range_[1] the entry has shape
\* (range_[1] - range_[0], len(names)) and holds rows start + range_[0] up to
\* start + range_[1] of the spec's precomputed array.
C4_ExtractShape ==
    ExtractedInBounds =>
        /\ ChunkLengthIsMaxEnd
        /\ Range(result.keys) = Range(Tags(range_chunk_specs))
        /\ \A k \in DOMAIN range_chunk_specs :
              LET spec == range_chunk_specs[k]
              IN  (0 <= spec.range_[1] /\ spec.range_[1] <= spec.range_[2]) =>
                     /\ Shape(result.val[spec.tag])
                          = <<spec.range_[2] - spec.range_[1], Len(spec.names)>>
                     /\ result.val[spec.tag].rows = ExpectedRows(k)

C4_Witness ==
    /\ ExtractedInBounds
    /\ arg.value = 1
    /\ Len(range_chunk_specs) = 2
    /\ range_chunk_specs[1].range_ = <<0, 1>>
    /\ range_chunk_specs[2].range_ = <<1, 2>>
    /\ range_chunk_specs[2].names = <<"y", "x">>
    /\ result.val[range_chunk_specs[2].tag].rows = <<<<253, 2>>>>

HasDuplicateTags ==
    \E j, k \in DOMAIN range_chunk_specs :
        j # k /\ range_chunk_specs[j].tag = range_chunk_specs[k].tag

\* C7: building a ChunkExtractor from specs two of which share a tag raises
\* an AssertionError before any attribute of the object is assigned, and no
\* extractor exists afterwards; with pairwise distinct tags no AssertionError
\* is raised.
C7_DuplicateTagsRejected ==
    pc # "new" =>
        /\ HasDuplicateTags =>
              /\ pc = "raised"
              /\ result = [kind |-> "error", exc |-> "AssertionError", assigned |-> {}]
              /\ chunk_extractors = <<>>
        /\ ~HasDuplicateTags =>
              ~(result.kind = "error" /\ result.exc = "AssertionError")

C7_Witness ==
    /\ pc = "raised"
    /\ HasDuplicateTags
    /\ range_chunk_specs[1].range_ # range_chunk_specs[2].range_
    /\ result.exc = "AssertionError"

----------------------------------------------------------------------------
(* SpecTransformers: a caller holds a table and a FeatureTransformers      *)
(* registry and invokes fit, transform and fit_transform on the table and  *)
(* inverse_transform on the table the last call returned.                  *)

FtLayouts ==
    {<<"x", "y", "time_index", "time_series_id">>,
     <<"y", "x">>,
     <<"time_index", "x">>,
     <<"time_series_id", "y", "time_index">>,
     <<"x">>}

FtValues == {1, 3}

\* A table of n rows: x and y as given, time_index counting down to 1, a
\* single series 7, rows labelled 10, 20, ...
FtTable(columns, n, xs, ys) ==
    Table(columns, [p \in 1..n |-> 10 * p],
          [name \in Range(columns) |->
              CASE name = "x" -> xs
                [] name = "y" -> ys
                [] name = "time_index" -> [p \in 1..n |-> n + 1 - p]
                [] name = "time_series_id" -> [p \in 1..n |-> 7]])

FtTables ==
    UNION {{FtTable(columns, n, xs, ys) :
               columns \in FtLayouts, xs \in [1..n -> FtValues], ys \in [1..n -> FtValues]} :
           n \in 1..MaxFtRows}

TransformerIds == {1, 2}

\* Registries: none, one feature, two features with a transformer each, two
\* features sharing one transformer, time_index registered, a name the table
\* lacks, and a feature sharing its transformer with time_index.
Registries ==
    {[name \in {} |-> 1],
     "x" :> 1,
     ("x" :> 1) @@ ("y" :> 2),
     ("x" :> 1) @@ ("y" :> 1),
     ("y" :> 1) @@ ("time_index" :> 2),
     ("x" :> 2) @@ ("z" :> 1) @@ ("time_series_id" :> 1),
     ("x" :> 1) @@ ("time_index" :> 1)}

NoChunks ==
    /\ chunk_specs = <<>>
    /\ encoding_length = 0
    /\ decoding_length = 0
    /\ range_chunk_specs = <<>>
    /\ chunk_extractors = <<>>

InitTransformers ==
    /\ pc = "ready"
    /\ df \in FtTables
    /\ transformer_dict \in Registries
    /\ fitted = [t \in TransformerIds |-> Unfitted]
    /\ calls = <<>>
    /\ op = "none"
    /\ arg = None
    /\ result = None
    /\ fit_feature_transformers = FALSE
    /\ scaled_df = None
    /\ splitted_dfs = <<>>
    /\ lengths = <<>>
    /\ NoChunks

FtFit ==
    /\ pc = "ready"
    /\ Len(calls) < MaxCalls
    /\ fitted' = fit(transformer_dict, fitted, df)
    /\ op' = "fit"
    /\ arg' = df
    /\ result' = None
    /\ calls' = Append(calls, "fit")
    /\ UNCHANGED <<pc, df, encoding_length, decoding_length, chunk_specs,
                   fit_feature_transformers, transformer_dict,
                   range_chunk_specs, scaled_df, splitted_dfs,
                   chunk_extractors, lengths>>

FtTransform ==
    /\ pc = "ready"
    /\ Len(calls) < MaxCalls
    /\ op' = "transform"
    /\ arg' = df
    /\ result' = transform(transformer_dict, fitted, df)
    /\ calls' = Append(calls, "transform")
    /\ UNCHANGED <<pc, df, encoding_length, decoding_length, chunk_specs,
                   fit_feature_transformers, transformer_dict, fitted,
                   range_chunk_specs, scaled_df, splitted_dfs,
                   chunk_extractors, lengths>>

FtFitTransform ==
    /\ pc = "ready"
    /\ Len(calls) < MaxCalls
    /\ op' = "fit_transform"
    /\ arg' = df
    /\ LET returned == fit_transform(transformer_dict, fitted, df)
       IN  /\ fitted' = returned.state
           /\ result' = returned.table
    /\ calls' = Append(calls, "fit_transform")
    /\ UNCHANGED <<pc, df, encoding_length, decoding_length, chunk_specs,
                   fit_feature_transformers, transformer_dict,
                   range_chunk_specs, scaled_df, splitted_dfs,
                   chunk_extractors, lengths>>

FtInverseTransform ==
    /\ pc = "ready"
    /\ Len(calls) < MaxCalls
    /\ result.kind = "DataFrame"
    /\ op' = "inverse_transform"
    /\ arg' = result
    /\ result' = inverse_transform(transformer_dict, fitted, result)
    /\ calls' = Append(calls, "inverse_transform")
    /\ UNCHANGED <<pc, df, encoding_length, decoding_length, chunk_specs,
                   fit_feature_transformers, transformer_dict, fitted,
                   range_chunk_specs, scaled_df, splitted_dfs,
                   chunk_extractors, lengths>>

NextTransformers == FtFit \/ FtTransform \/ FtFitTransform \/ FtInverseTransform

SpecTransformers == InitTransformers /\ [][NextTransformers]_vars

----------------------------------------------------------------------------
(* Properties of FeatureTransformers, under SpecTransformers.              *)

IndexAndId == {"time_index", "time_series_id"}

Registered(table) == Range(table.columns) \cap DOMAIN transformer_dict

\* inverse_transform has just been applied to what fit_transform(df) returned.
RoundTripDone ==
    /\ op = "inverse_transform"
    /\ Len(calls) >= 2
    /\ calls[Len(calls) - 1] = "fit_transform"

\* The round trip gave back the registered columns of df, and its time_index
\* and time_series_id.
RoundTripRestores ==
    /\ result.kind = "DataFrame"
    /\ result.index = df.index
    /\ \A name \in Registered(df) \cup (IndexAndId \cap Range(df.columns)) :
          /\ name \in Range(result.columns)
          /\ result.data[name] = df.data[name]

\* The statement of C8 as claimed, for every registry.
C8_AnyRegistry == RoundTripDone => RoundTripRestores

\* Two registered columns of df share one transformer object.
SharesTransformer ==
    \E a, b \in Registered(df) : a # b /\ transformer_dict[a] = transformer_dict[b]

\* C8 (amended): when no two registered columns of df share a transformer
\* object, inverse_transform(fit_transform(df)) has the values of every
\* registered column of df in the same row order, and df's time_index and
\* time_series_id.
C8_RoundTrip == (RoundTripDone /\ ~SharesTransformer) => RoundTripRestores

C8_Witness ==
    /\ RoundTripDone
    /\ ~SharesTransformer
    /\ df.columns = <<"x", "y", "time_index", "time_series_id">>
    /\ {"x", "y"} \subseteq DOMAIN transformer_dict
    /\ df.data["x"] = <<3, 1>>
    /\ arg.data["x"] = <<2, 0>>
    /\ result.data["x"] = <<3, 1>>

\* C9: the table transform, fit_transform or inverse_transform returns has
\* exactly the registered columns of its input, in the input's order, and the
\* input's time_index and time_series_id; each column once; and time_index and
\* time_series_id hold the input's values, registered or not.
C9_OutputColumns ==
    (op \in {"transform", "fit_transform", "inverse_transform"}
        /\ result.kind = "DataFrame") =>
        /\ Range(result.columns)
             = Registered(arg) \cup (IndexAndId \cap Range(arg.columns))
        /\ Len(result.columns) = Cardinality(Range(result.columns))
        /\ SelectSeq(result.columns, LAMBDA name : name \in DOMAIN transformer_dict)
             = SelectSeq(arg.columns, LAMBDA name : name \in DOMAIN transformer_dict)
        /\ \A name \in IndexAndId \cap Range(arg.columns) :
              result.data[name] = arg.data[name]

C9_Witness ==
    /\ op = "transform"
    /\ result.kind = "DataFrame"
    /\ arg.columns = <<"time_series_id", "y", "time_index">>
    /\ "time_index" \in DOMAIN transformer_dict
    /\ result.columns = <<"y", "time_index", "time_series_id">>
    /\ result.data["time_index"] = <<2, 1>>
    /\ result.data["y"] # arg.data["y"]

----------------------------------------------------------------------------
(* SpecDataset: a caller builds a TimeSeriesDataset, whose _preprocess     *)
(* runs statement by statement, and then calls len, indexes it and         *)
(* converts the items it got back.                                         *)

SeriesIds == {1, 2}

TimePatterns == {"ascending", "descending pairs"}

\* A table whose rows belong to the series ids[p]: time_index either counts
\* up or counts down in pairs of equal values, x is 2, 4, ..., y is 5, and the
\* rows are labelled 0, 1, ...
DatasetTable(ids, pattern) ==
    LET n == Len(ids)
    IN  Table(<<"time_index", "time_series_id", "x", "y">>,
              [p \in 1..n |-> p - 1],
              [name \in {"time_index", "time_series_id", "x", "y"} |->
                  CASE name = "time_index" ->
                         [p \in 1..n |-> IF pattern = "ascending" THEN p
                                         ELSE (n - p) \div 2]
                    [] name = "time_series_id" -> ids
                    [] name = "x" -> [p \in 1..n |-> 2 * p]
                    [] name = "y" -> [p \in 1..n |-> 5]])

DatasetTables ==
    UNION {{DatasetTable(ids, pattern) :
               ids \in [1..n -> SeriesIds], pattern \in TimePatterns} :
           n \in 1..MaxRows}

\* The chunk specs, the registry, the state of the transformer objects and
\* the fit flag a caller hands over together.
Scenario(specs, tdict, state, flag) ==
    [chunk_specs |-> specs, transformer_dict |-> tdict, fitted |-> state,
     fit_feature_transformers |-> flag]

AllUnfitted == [t \in TransformerIds |-> Unfitted]

FittedBefore == [t \in TransformerIds |-> [fitted |-> TRUE, lo |-> 1]]

OneSpec == <<EncodingChunkSpec("a", <<"x">>, "int64", 0)>>

TwoSpecs == <<EncodingChunkSpec("a", <<"x">>, "int64", 1),
              LabelChunkSpec("a", <<"x">>, "int64", 0)>>

ThreeRoles == <<EncodingChunkSpec("a", <<"x">>, "int64", 0),
                DecodingChunkSpec("a", <<"x">>, "int64", -1),
                LabelChunkSpec("a", <<"x">>, "int64", 0)>>

SameTagTwice == <<EncodingChunkSpec("a", <<"x">>, "int64", 0),
                  EncodingChunkSpec("a", <<"x">>, "int64", 0)>>

WithY == <<DecodingChunkSpec("b", <<"y", "x">>, "uint8", 2)>>

Scenarios ==
    {Scenario(OneSpec, "x" :> 1, AllUnfitted, TRUE),
     Scenario(OneSpec, "x" :> 1, AllUnfitted, FALSE),
     Scenario(TwoSpecs, "x" :> 1, AllUnfitted, TRUE),
     Scenario(TwoSpecs, "x" :> 1, FittedBefore, FALSE),
     Scenario(ThreeRoles, ("x" :> 1) @@ ("time_index" :> 2), FittedBefore, TRUE),
     Scenario(SameTagTwice, "x" :> 1, AllUnfitted, TRUE),
     Scenario(<<>>, "x" :> 1, FittedBefore, FALSE),
     Scenario(WithY, "x" :> 1, AllUnfitted, TRUE),
     Scenario(WithY, ("x" :> 1) @@ ("y" :> 2), AllUnfitted, TRUE)}

InitDataset ==
    /\ pc = "__init__"
    /\ df \in DatasetTables
    /\ encoding_length \in Lengths
    /\ decoding_length \in DecodingLengths
    /\ \E scenario \in Scenarios :
          /\ chunk_specs = scenario.chunk_specs
          /\ transformer_dict = scenario.transformer_dict
          /\ fitted = scenario.fitted
          /\ fit_feature_transformers = scenario.fit_feature_transformers
    /\ range_chunk_specs = <<>>
    /\ scaled_df = None
    /\ splitted_dfs = <<>>
    /\ chunk_extractors = <<>>
    /\ lengths = <<>>
    /\ calls = <<>>
    /\ op = "TimeSeriesDataset"
    /\ arg = None
    /\ result = None

\* __init__ up to its call of _preprocess.
DatasetInit ==
    /\ pc = "__init__"
    /\ range_chunk_specs' =
          [k \in DOMAIN chunk_specs |->
              to_range_chunk_spec(chunk_specs[k], encoding_length, decoding_length)]
    /\ pc' = "sort_values"
    /\ UNCHANGED <<df, encoding_length, decoding_length, chunk_specs,
                   fit_feature_transformers, transformer_dict, fitted,
                   scaled_df, splitted_dfs, chunk_extractors, lengths, calls,
                   op, arg, result>>

\* self.df.sort_values(by='time_index', inplace=True)
PreprocessSort ==
    /\ pc = "sort_values"
    /\ df' \in SortValues(df)
    /\ pc' = "fit"
    /\ UNCHANGED <<encoding_length, decoding_length, chunk_specs,
                   fit_feature_transformers, transformer_dict, fitted,
                   range_chunk_specs, scaled_df, splitted_dfs,
                   chunk_extractors, lengths, calls, op, arg, result>>

\* if self.fit_feature_transformers: self.feature_transformers.fit(self.df)
PreprocessFitStep ==
    /\ pc = "fit"
    /\ fitted' = PreprocessFit(fit_feature_transformers, transformer_dict, fitted, df)
    /\ calls' = IF fit_feature_transformers
                THEN Append(calls, [method |-> "fit", table |-> df])
                ELSE calls
    /\ pc' = "transform"
    /\ UNCHANGED <<df, encoding_length, decoding_length, chunk_specs,
                   fit_feature_transformers, transformer_dict,
                   range_chunk_specs, scaled_df, splitted_dfs,
                   chunk_extractors, lengths, op, arg, result>>

\* self.scaled_df = self.feature_transformers.transform(self.df)
PreprocessTransform ==
    /\ pc = "transform"
    /\ calls' = Append(calls, [method |-> "transform", table |-> df])
    /\ LET returned == transform(transformer_dict, fitted, df)
       IN  IF IsError(returned)
           THEN /\ pc' = "raised"
                /\ result' = returned
                /\ UNCHANGED scaled_df
           ELSE /\ pc' = "groupby"
                /\ scaled_df' = returned
                /\ UNCHANGED result
    /\ UNCHANGED <<df, encoding_length, decoding_length, chunk_specs,
                   fit_feature_transformers, transformer_dict, fitted,
                   range_chunk_specs, splitted_dfs, chunk_extractors,
                   lengths, op, arg>>

\* splitted_dfs = [df for _, df in self.scaled_df.groupby('time_series_id')]
PreprocessSplit ==
    /\ pc = "groupby"
    /\ splitted_dfs' = GroupBy(scaled_df, "time_series_id")
    /\ pc' = "chunk_extractors"
    /\ UNCHANGED <<df, encoding_length, decoding_length, chunk_specs,
                   fit_feature_transformers, transformer_dict, fitted,
                   range_chunk_specs, scaled_df, chunk_extractors, lengths,
                   calls, op, arg, result>>

\* self.chunk_extractors = [ChunkExtractor(df, self.chunk_specs) for ...]
PreprocessExtractors ==
    /\ pc = "chunk_extractors"
    /\ LET built == [k \in DOMAIN splitted_dfs |->
                        ChunkExtractorInit(splitted_dfs[k], range_chunk_specs)]
           failed == {k \in DOMAIN built : IsError(built[k])}
       IN  IF failed # {}
           THEN /\ pc' = "raised"
                /\ result' = built[MinOf(failed)]
                /\ UNCHANGED chunk_extractors
           ELSE /\ pc' = "lengths"
                /\ chunk_extractors' = built
                /\ UNCHANGED result
    /\ UNCHANGED <<df, encoding_length, decoding_length, chunk_specs,
                   fit_feature_transformers, transformer_dict, fitted,
                   range_chunk_specs, scaled_df, splitted_dfs, lengths,
                   calls, op, arg>>

\* self.lengths = [len(df) - self.chunk_extractors[0].chunk_length for ...]
PreprocessLengthsStep ==
    /\ pc = "lengths"
    /\ lengths' = PreprocessLengths(splitted_dfs, chunk_extractors)
    /\ pc' = "done"
    /\ UNCHANGED <<df, encoding_length, decoding_length, chunk_specs,
                   fit_feature_transformers, transformer_dict, fitted,
                   range_chunk_specs, scaled_df, splitted_dfs,
                   chunk_extractors, calls, op, arg, result>>

\* len(dataset)
DatasetLen ==
    /\ pc = "done"
    /\ op' = "__len__"
    /\ arg' = None
    /\ result' = IntArg(len(lengths))
    /\ UNCHANGED <<pc, df, encoding_length, decoding_length, chunk_specs,
                   fit_feature_transformers, transformer_dict, fitted,
                   range_chunk_specs, scaled_df, splitted_dfs,
                   chunk_extractors, lengths, calls>>

\* dataset[i], for every index inside [0, len) and the first one past it.
DatasetGetItem ==
    /\ pc = "done"
    /\ \E i \in 0..(IF len(lengths) < 0 THEN 0 ELSE len(lengths)) :
          /\ arg' = getitem_locals(lengths, i)
          /\ result' = getitem(chunk_extractors, lengths, i)
    /\ op' = "__getitem__"
    /\ UNCHANGED <<pc, df, encoding_length, decoding_length, chunk_specs,
                   fit_feature_transformers, transformer_dict, fitted,
                   range_chunk_specs, scaled_df, splitted_dfs,
                   chunk_extractors, lengths, calls>>

\* dataset.convert_item_to_df(item) on the item the last dataset[i] returned.
DatasetConvertItemToDf ==
    /\ pc = "done"
    /\ op = "__getitem__"
    /\ result.kind = "dict"
    /\ op' = "convert_item_to_df"
    /\ arg' = result
    /\ result' = convert_item_to_df(chunk_extractors, transformer_dict, fitted, result)
    /\ UNCHANGED <<pc, df, encoding_length, decoding_length, chunk_specs,
                   fit_feature_transformers, transformer_dict, fitted,
                   range_chunk_specs, scaled_df, splitted_dfs,
                   chunk_extractors, lengths, calls>>

NextDataset ==
    \/ DatasetInit
    \/ PreprocessSort
    \/ PreprocessFitStep
    \/ PreprocessTransform
    \/ PreprocessSplit
    \/ PreprocessExtractors
    \/ PreprocessLengthsStep
    \/ DatasetLen
    \/ DatasetGetItem
    \/ DatasetConvertItemToDf

SpecDataset == InitDataset /\ [][NextDataset]_vars

----------------------------------------------------------------------------
(* Properties of TimeSeriesDataset, under SpecDataset.                     *)

SeriesCount == Len(splitted_dfs)

\* N_k and L.
SeriesLength(k) == NRows(splitted_dfs[k])

ChunkLength == chunk_extractors[1].chunk_length

\* c_k, the sum over j < k of N_j - L.
RECURSIVE CumulativeStart(_)
CumulativeStart(k) ==
    IF k = 1 THEN 0
    ELSE CumulativeStart(k - 1) + (SeriesLength(k - 1) - ChunkLength)

ValidIndices == 0..(len(lengths) - 1)

\* The last series whose cumulative start is <= i, and the start within it.
SeriesOf_(i) == MaxOf({k \in 1..SeriesCount : CumulativeStart(k) <= i})

StartOf(i) == i - CumulativeStart(SeriesOf_(i))

EverySeriesLongEnough ==
    /\ pc = "done"
    /\ SeriesCount >= 1
    /\ \A k \in 1..SeriesCount : SeriesLength(k) >= ChunkLength

\* C1: when every series is at least chunk_length long, __getitem__(i) for a
\* valid i returns chunk_extractors[k].extract(s), k the last series whose
\* cumulative start is <= i and s = i minus that start; 0 <= s < N_k - L; and
\* i -> (k, s) is increasing and onto {(k, s) : 0 <= s < N_k - L}.
C1_FlatIndexMapping ==
    EverySeriesLongEnough =>
        /\ \A i \in ValidIndices :
              LET locals == getitem_locals(lengths, i)
              IN  /\ locals.df_index = SeriesOf_(i) - 1
                  /\ getitem_start(locals) = StartOf(i)
                  /\ 0 <= StartOf(i)
                  /\ StartOf(i) < SeriesLength(SeriesOf_(i)) - ChunkLength
                  /\ getitem(chunk_extractors, lengths, i)
                       = extract(chunk_extractors[SeriesOf_(i)], StartOf(i))
        /\ \A i, j \in ValidIndices :
              i < j => \/ SeriesOf_(i) < SeriesOf_(j)
                       \/ SeriesOf_(i) = SeriesOf_(j) /\ StartOf(i) < StartOf(j)
        /\ \A k \in 1..SeriesCount :
              \A s \in 0..(SeriesLength(k) - ChunkLength - 1) :
                  \E i \in ValidIndices : SeriesOf_(i) = k /\ StartOf(i) = s
        /\ (op = "__getitem__" /\ arg.i \in ValidIndices) =>
              /\ arg.df_index = SeriesOf_(arg.i) - 1
              /\ result = extract(chunk_extractors[SeriesOf_(arg.i)], StartOf(arg.i))

C1_Witness ==
    /\ EverySeriesLongEnough
    /\ op = "__getitem__"
    /\ lengths = <<1, 1>>
    /\ arg.i = 1
    /\ arg.df_index = 1
    /\ getitem_start(arg) = 0
    /\ result.kind = "dict"
    /\ \E tag \in Range(result.keys) : Len(result.val[tag].rows) = 1

\* The rows of the table handed in that belong to a series.
RowsOfSeries(id) ==
    Cardinality({p \in 1..NRows(df) : df.data["time_series_id"][p] = id})

\* The largest range end over the chunk specs handed in.
LargestRangeEnd ==
    MaxOf({encoding_length + decoding_length - chunk_specs[k].shift :
              k \in DOMAIN chunk_specs})

\* The sum over the series in S of series length minus the largest range end.
RECURSIVE SumOfUsable(_)
SumOfUsable(S) ==
    IF S = {} THEN 0
    ELSE LET id == CHOOSE x \in S : TRUE
         IN  (RowsOfSeries(id) - LargestRangeEnd) + SumOfUsable(S \ {id})

ExpectedLen == SumOfUsable(Range(df.data["time_series_id"]))

\* C2: len(dataset) is the sum over the series of series length minus
\* chunk_length, chunk_length the largest range end of the specs; the sum is
\* not clamped; it is >= 0 when every series is at least chunk_length long.
C2_LenIsSum ==
    pc = "done" =>
        /\ len(lengths) = ExpectedLen
        /\ op = "__len__" => result.value = ExpectedLen
        /\ (\A id \in Range(df.data["time_series_id"]) :
                RowsOfSeries(id) >= LargestRangeEnd) => len(lengths) >= 0

C2_Witness ==
    /\ pc = "done"
    /\ op = "__len__"
    /\ Cardinality(Range(df.data["time_series_id"])) = 2
    /\ \E id \in Range(df.data["time_series_id"]) : RowsOfSeries(id) < LargestRangeEnd
    /\ result.value = -1

\* C3: convert_item_to_df(item) on an item __getitem__ returned completes and
\* returns one table per tag of the item, its columns the feature names of
\* the tag's spec and its values the item's columns inverse-transformed.
C3_ConvertItemToDf ==
    op = "convert_item_to_df" =>
        /\ result.kind = "dict"
        /\ Range(result.keys) = Range(arg.keys)
        /\ \A k \in DOMAIN range_chunk_specs :
              LET spec == range_chunk_specs[k]
                  table == result.val[spec.tag]
              IN  /\ table.columns = spec.names
                  /\ \A c \in DOMAIN spec.names :
                        spec.names[c] \in DOMAIN transformer_dict =>
                            table.data[spec.names[c]]
                              = [p \in DOMAIN arg.val[spec.tag].rows |->
                                    arg.val[spec.tag].rows[p][c]
                                      + fitted[transformer_dict[spec.names[c]]].lo]

AfterSplit == pc \in {"chunk_extractors", "lengths", "done"}

\* The k-th sub-table, and the k-th extractor once built, belong to the
\* series order[k].
SeriesOrderIs(order) ==
    /\ Len(splitted_dfs) = Len(order)
    /\ \A k \in DOMAIN order :
          Range(splitted_dfs[k].data["time_series_id"]) = {order[k]}
    /\ pc \in {"lengths", "done"} =>
          /\ Len(chunk_extractors) = Len(order)
          /\ \A k \in DOMAIN order :
                chunk_extractors[k].data
                  = ExtractorData(Group(scaled_df, "time_series_id", order[k]),
                                  range_chunk_specs)

\* The statement of C6 as claimed: the series in order of first appearance in
\* the sorted table.
C6_FirstAppearanceOrder ==
    AfterSplit => SeriesOrderIs(FirstAppearance(df.data["time_series_id"]))

\* C6 (amended): the k-th chunk extractor, and the k-th block of flat
\* indices, belongs to the k-th distinct time_series_id in ascending order of
\* the ids, whatever their order of appearance in the table.
C6_AscendingIdOrder ==
    AfterSplit => SeriesOrderIs(Ascending(Range(df.data["time_series_id"])))

C6_Witness ==
    /\ pc = "done"
    /\ FirstAppearance(df.data["time_series_id"]) = <<2, 1>>
    /\ Range(splitted_dfs[1].data["time_series_id"]) = {1}
    /\ NRows(splitted_dfs[1]) # NRows(splitted_dfs[2])
    /\ lengths[1] > 0

SortedByTime(table) ==
    \A p, q \in 1..NRows(table) :
        p < q => table.data["time_index"][p] <= table.data["time_index"][q]

FitCalls ==
    IF fit_feature_transformers THEN <<[method |-> "fit", table |-> df]>> ELSE <<>>

ConstructionOrder ==
    /\ pc \notin {"__init__", "sort_values"} => SortedByTime(df)
    /\ pc \in {"__init__", "sort_values", "fit"} => calls = <<>>
    /\ pc = "transform" => calls = FitCalls
    /\ pc \notin {"__init__", "sort_values", "fit", "transform"} =>
          calls = FitCalls \o <<[method |-> "transform", table |-> df]>>
    /\ pc \in {"__init__", "sort_values", "fit", "transform"} =>
          /\ splitted_dfs = <<>>
          /\ scaled_df = None

\* C10: the table is sorted by time_index first; fit is invoked iff the flag
\* is true, then once, on the whole sorted table, before transform; transform
\* is invoked once on the whole sorted table, before the split; and with the
\* flag false construction changes no transformer's state.
C10_ConstructionSequence ==
    /\ []ConstructionOrder
    /\ [][(~fit_feature_transformers) => fitted' = fitted]_vars
    /\ [][(pc = "fit" /\ fit_feature_transformers) =>
             fitted' = fit(transformer_dict, fitted, df)]_vars
    /\ [][pc # "fit" => fitted' = fitted]_vars

C10_Witness ==
    /\ pc = "done"
    /\ fit_feature_transformers
    /\ Len(calls) = 2
    /\ Cardinality(Range(calls[1].table.data["time_series_id"])) = 2
    /\ \E p \in 1..NRows(df) : df.index[p] # p - 1
    /\ fitted[1] = [fitted |-> TRUE, lo |-> 2]
    /\ \E k \in DOMAIN splitted_dfs : 2 \notin Range(splitted_dfs[k].data["x"])

====
